---- MODULE Spec2Model ----
(***************************************************************************)
(* LPC BootROM checksum calculator (src/src/main.rs).                      *)
(*                                                                         *)
(* The firmware file is a sequence of bytes.  A u32 is kept as two 16-bit  *)
(* limbs [lo, hi] so that the arithmetic keeps its 32-bit width.           *)
(* Strings are sequences of one-character strings.                        *)
(***************************************************************************)
EXTENDS Integers, Sequences, FiniteSets, TLC

VARIABLES
    file,            \* content of the firmware file on disk (bytes)
    processor,       \* --processor argument
    dry_run,         \* --dry-run flag
    overflow_checks, \* build profile: TRUE = overflow checks on (dev), FALSE = release
    pc,              \* position in main
    processor_info,  \* Some(index into PROCESSOR_CHECKSUM) or None
    checksum,        \* Some(u32) once compute_checksum returned Ok
    outcome,         \* "running", "Ok", "Err", "panic"
    log,             \* last message of level warn/error, "" when none
    run,             \* number of the current invocation of the tool
    image0,          \* content of the file when the current invocation started
    prev             \* what the previous invocation left: its flags and results

vars == <<file, processor, dry_run, overflow_checks, pc, processor_info,
          checksum, outcome, log, run, image0, prev>>

----------------------------------------------------------------------------
\* Bounds of the model

MaxLen == 33         \* longest firmware file, in bytes
MaxRuns == 2         \* invocations of the tool on the same file
MaxIdLen == 5        \* longest generated processor identifier

----------------------------------------------------------------------------
\* Option<T>

None == <<>>
Some(x) == <<x>>
is_some(o) == o # None
is_none(o) == o = None
unwrap(o) == o[1]

\* usize arithmetic helpers
Max(a, b) == IF a < b THEN b ELSE a

----------------------------------------------------------------------------
\* u32

size_of_u32 == 4

U32(lo, hi) == [lo |-> lo, hi |-> hi]
ZeroU32 == U32(0, 0)

\* u32::from_le_bytes: byte 0 is the least significant
from_le_bytes(b) == U32(b[1] + 256 * b[2], b[3] + 256 * b[4])

\* u32::to_le_bytes (to_be_bytes: the bytes in the other order)
to_be_bytes(w) == <<w.hi \div 256, w.hi % 256, w.lo \div 256, w.lo % 256>>
to_le_bytes(w) == <<w.lo % 256, w.lo \div 256, w.hi % 256, w.hi \div 256>>

\* a + b on u32: the wrapped sum and whether it overflowed
overflowing_add(a, b) ==
    LET lo == a.lo + b.lo
        hi == a.hi + b.hi + (lo \div 65536)
    IN  [val |-> U32(lo % 65536, hi % 65536), overflow |-> hi >= 65536]

\* a.overflowing_sub(b) on u32: the wrapped difference and whether it borrowed
overflowing_sub(a, b) ==
    LET borrow == IF a.lo < b.lo THEN 1 ELSE 0
        lo == a.lo - b.lo + 65536 * borrow
        hi == a.hi - b.hi - borrow
    IN  [val |-> U32(lo, (hi + 65536) % 65536), overflow |-> hi < 0]

----------------------------------------------------------------------------
\* The table of processor families

ProcessorChecksumInfo(family, count, position) ==
    [cpu_family |-> family, words_count |-> count,
     resulting_word_position |-> position]

\* the table with the LPC1 result word one further than it is
PROCESSOR_CHECKSUM_slot_past ==
    << ProcessorChecksumInfo(<<"L","P","C","3">>, None, 0),
       ProcessorChecksumInfo(<<"L","P","C","2","9">>, None, 0),
       ProcessorChecksumInfo(<<"L","P","C","1">>, Some(7), 8),
       ProcessorChecksumInfo(<<"L","P","C","2">>, Some(8), 5),
       ProcessorChecksumInfo(<<"L","P","C","4">>, Some(7), 7),
       ProcessorChecksumInfo(<<"L","P","C","5">>, Some(7), 7) >>

PROCESSOR_CHECKSUM ==
    << ProcessorChecksumInfo(<<"L","P","C","3">>, None, 0),
       ProcessorChecksumInfo(<<"L","P","C","2","9">>, None, 0),
       ProcessorChecksumInfo(<<"L","P","C","1">>, Some(7), 7),
       ProcessorChecksumInfo(<<"L","P","C","2">>, Some(8), 5),
       ProcessorChecksumInfo(<<"L","P","C","4">>, Some(7), 7),
       ProcessorChecksumInfo(<<"L","P","C","5">>, Some(7), 7) >>

\* str::contains: the pattern occurs at some offset of the haystack,
\* searched from the left
RECURSIVE find_from(_, _, _)
find_from(haystack, pat, i) ==
    IF i + Len(pat) - 1 > Len(haystack) THEN FALSE
    ELSE IF SubSeq(haystack, i, i + Len(pat) - 1) = pat THEN TRUE
    ELSE find_from(haystack, pat, i + 1)

contains(haystack, pat) == find_from(haystack, pat, 1)

\* the for loop of get_processor_checksum_info_by_name, from entry i on
\* (scan_down: the table walked from its end)
RECURSIVE scan_down(_, _)
scan_down(cpu_part_number, i) ==
    IF i < 1 THEN None
    ELSE IF contains(cpu_part_number, PROCESSOR_CHECKSUM[i].cpu_family) THEN Some(i)
    ELSE scan_down(cpu_part_number, i - 1)

RECURSIVE scan_from(_, _)
scan_from(cpu_part_number, i) ==
    IF i > Len(PROCESSOR_CHECKSUM) THEN None
    ELSE IF contains(cpu_part_number, PROCESSOR_CHECKSUM[i].cpu_family) THEN Some(i)
    ELSE scan_from(cpu_part_number, i + 1)

get_processor_checksum_info_by_name_last(cpu_part_number) ==
    scan_down(cpu_part_number, Len(PROCESSOR_CHECKSUM))

get_processor_checksum_info_by_name(cpu_part_number) ==
    scan_from(cpu_part_number, 1)

\* the default value of --processor, also the fallback of main
DefaultProcessor == <<"L","P","C","1","0","0","0">>

----------------------------------------------------------------------------
\* compute_checksum

\* buffer.chunks(4).map(u32::from_le_bytes)
words_of(buffer) ==
    [i \in 1..(Len(buffer) \div size_of_u32) |->
        from_le_bytes(SubSeq(buffer, size_of_u32 * (i - 1) + 1, size_of_u32 * i))]

\* the summation loop from word i on (i is 1-based, the code's index is i - 1);
\* acc is [val, overflow]: the wrapped sum so far and whether a += overflowed
RECURSIVE sum_loop(_, _, _, _)
sum_loop(words, position, i, acc) ==
    IF i > Len(words) THEN acc
    ELSE IF i - 1 # position
         THEN LET r == overflowing_add(acc.val, words[i])
              IN  sum_loop(words, position, i + 1,
                           [val |-> r.val, overflow |-> acc.overflow \/ r.overflow])
         ELSE sum_loop(words, position, i + 1, acc)

\* Result of compute_checksum on the bytes readable from the file:
\*   [kind |-> "Err"]            read_exact failed (UnexpectedEof)
\*   [kind |-> "panic"]          += overflowed in a build with overflow checks
\*   [kind |-> "Ok", val |-> c]

\* variant: no word is left out of the sum
compute_checksum_no_skip(info, bytes, checks) ==
    LET need == unwrap(info.words_count) * size_of_u32
    IN  IF Len(bytes) < need THEN [kind |-> "Err"]
        ELSE LET words == words_of(SubSeq(bytes, 1, need))
                 s == sum_loop(words, Len(words) + 1, 1,
                               [val |-> ZeroU32, overflow |-> FALSE])
             IN  IF s.overflow /\ checks THEN [kind |-> "panic"]
                 ELSE [kind |-> "Ok", val |-> overflowing_sub(ZeroU32, s.val).val]

\* variant: the word after the result word is left out instead of it
compute_checksum_skip_next(info, bytes, checks) ==
    LET need == unwrap(info.words_count) * size_of_u32
    IN  IF Len(bytes) < need THEN [kind |-> "Err"]
        ELSE LET words == words_of(SubSeq(bytes, 1, need))
                 s == sum_loop(words, info.resulting_word_position + 1, 1,
                               [val |-> ZeroU32, overflow |-> FALSE])
             IN  IF s.overflow /\ checks THEN [kind |-> "panic"]
                 ELSE [kind |-> "Ok", val |-> overflowing_sub(ZeroU32, s.val).val]

\* variant: read instead of read_exact, a short file gives the words it has
compute_checksum_short_read(info, bytes, checks) ==
    LET need == unwrap(info.words_count) * size_of_u32
        got == IF Len(bytes) < need THEN Len(bytes) ELSE need
        words == words_of(SubSeq(bytes, 1, got))
        s == sum_loop(words, info.resulting_word_position, 1,
                      [val |-> ZeroU32, overflow |-> FALSE])
    IN  IF s.overflow /\ checks THEN [kind |-> "panic"]
        ELSE [kind |-> "Ok", val |-> overflowing_sub(ZeroU32, s.val).val]

compute_checksum(info, bytes, checks) ==
    LET need == unwrap(info.words_count) * size_of_u32
    IN  IF Len(bytes) < need THEN [kind |-> "Err"]
        ELSE LET words == words_of(SubSeq(bytes, 1, need))
                 s == sum_loop(words, info.resulting_word_position, 1,
                               [val |-> ZeroU32, overflow |-> FALSE])
             IN  IF s.overflow /\ checks THEN [kind |-> "panic"]
                 ELSE [kind |-> "Ok", val |-> overflowing_sub(ZeroU32, s.val).val]

----------------------------------------------------------------------------
\* seek(SeekFrom::Start(offset)) then a write of the first k bytes of data:
\* bytes inside the file are replaced, bytes past its end are appended
\* (a gap between the end and the offset reads as zeros)
write_at(f, offset, data, k) ==
    LET newlen == IF k = 0 THEN Len(f) ELSE Max(Len(f), offset + k)
    IN  [i \in 1..newlen |->
            IF i > offset /\ i <= offset + k THEN data[i - offset]
            ELSE IF i <= Len(f) THEN f[i]
            ELSE 0]

----------------------------------------------------------------------------
\* Inputs

\* the 32-bit words the generated images are made of, as they lie in the file
WordVals == { <<1, 0, 0, 0>>, <<255, 255, 255, 255>> }

Flatten(ws) ==
    [i \in 1..(size_of_u32 * Len(ws)) |->
        ws[((i - 1) \div size_of_u32) + 1][((i - 1) % size_of_u32) + 1]]

LeWord(n) == <<n, 0, 0, 0>>

\* the images of the two documented scenarios
Example85 ==
    Flatten(<<LeWord(10), LeWord(10), LeWord(10), LeWord(10), LeWord(10),
              LeWord(99), LeWord(10), LeWord(10)>>)
Example77 ==
    Flatten(<<LeWord(1), LeWord(2), LeWord(3), LeWord(4), LeWord(5),
              LeWord(6), LeWord(7)>>)

\* an erased flash page, and a vector table of eight ARM branch instructions
\* (ldr pc, [pc, #24] = 0xE59FF018)
ErasedImage == [i \in 1..32 |-> 0]
ArmVectors == Flatten([i \in 1..8 |-> <<24, 240, 159, 229>>])

ExampleImages == { Example85, Example77, ErasedImage, ArmVectors }

\* every file of at most MaxLen bytes cut out of a sequence of WordVals words
GeneratedImages ==
    UNION { { SubSeq(Flatten(ws), 1, l) :
                ws \in [1..((l + size_of_u32 - 1) \div size_of_u32) -> WordVals] } :
            l \in 0..MaxLen }

Images == GeneratedImages \cup ExampleImages

\* --processor values given to the pipeline
Processors ==
    { <<"L","P","C","1","7","6","8">>,
      <<"L","P","C","2","1","0","3">>,
      <<"L","P","C","2","9","2","9">>,
      <<"L","P","C","3","2","5","0">>,
      <<"L","P","C","4","0","8","8">>,
      <<"L","P","C","5","4","6","0","8">>,
      <<"S","T","M","3","2">> }

----------------------------------------------------------------------------
\* main

Info == PROCESSOR_CHECKSUM[unwrap(processor_info)]

Start(images, processors, flags) ==
    /\ file \in images
    /\ processor \in processors
    /\ dry_run \in flags
    /\ overflow_checks \in BOOLEAN
    /\ pc = "start"
    /\ processor_info = None
    /\ checksum = None
    /\ outcome = "running"
    /\ log = ""
    /\ run = 1
    /\ image0 = file
    /\ prev = None

Init == Start(Images, Processors, BOOLEAN)

\* main.rs 150-161: look the processor up, fall back to LPC1000, unwrap
Resolve ==
    /\ pc = "start"
    /\ LET first == get_processor_checksum_info_by_name(processor)
           found == IF is_none(first)
                    THEN get_processor_checksum_info_by_name(DefaultProcessor)
                    ELSE first
       IN  /\ processor_info' = found
           /\ log' = IF is_none(first) THEN "warn: unknown processor" ELSE log
           /\ IF is_none(found)
              THEN pc' = "exit" /\ outcome' = "panic"
              ELSE pc' = "resolved" /\ outcome' = outcome
    /\ UNCHANGED <<file, processor, dry_run, overflow_checks, checksum, run,
                   image0, prev>>

\* main.rs 167-168, 179-186: branch on words_count, open the file read+write
Open ==
    /\ pc = "resolved"
    /\ IF is_some(Info.words_count)
       THEN \E opened \in BOOLEAN :
                IF opened
                THEN pc' = "compute" /\ UNCHANGED <<log, outcome>>
                ELSE pc' = "exit" /\ log' = "error: cannot open file"
                                  /\ outcome' = "Ok"
       ELSE pc' = "exit" /\ log' = "error: checksum not supported"
                         /\ outcome' = "Ok"
    /\ UNCHANGED <<file, processor, dry_run, overflow_checks, processor_info,
                   checksum, run, image0, prev>>

\* variant of Compute: the dry-run flag is not looked at
Compute_ignoring_dry_run ==
    /\ pc = "compute"
    /\ LET r == compute_checksum(Info, file, overflow_checks)
       IN  IF r.kind = "Ok"
           THEN /\ checksum' = Some(r.val)
                /\ pc' = "patch" /\ outcome' = outcome
           ELSE /\ checksum' = checksum
                /\ pc' = "exit"
                /\ outcome' = r.kind
    /\ UNCHANGED <<file, processor, dry_run, overflow_checks, processor_info,
                   log, run, image0, prev>>

\* main.rs 170-173: compute_checksum(&mut firmware_file)?, then the dry-run test
Compute ==
    /\ pc = "compute"
    /\ LET r == compute_checksum(Info, file, overflow_checks)
       IN  IF r.kind = "Ok"
           THEN /\ checksum' = Some(r.val)
                /\ IF dry_run
                   THEN pc' = "exit" /\ outcome' = "Ok"
                   ELSE pc' = "patch" /\ outcome' = outcome
           ELSE /\ checksum' = checksum
                /\ pc' = "exit"
                /\ outcome' = r.kind
    /\ UNCHANGED <<file, processor, dry_run, overflow_checks, processor_info,
                   log, run, image0, prev>>

\* main.rs 174-178, 186: seek to the result word and write_all the checksum;
\* the write may fail after k < 4 bytes reached the file
Patch ==
    /\ pc = "patch"
    /\ \E k \in 0..size_of_u32 :
        /\ file' = write_at(file, Info.resulting_word_position * size_of_u32,
                            to_le_bytes(unwrap(checksum)), k)
        /\ outcome' = IF k = size_of_u32 THEN "Ok" ELSE "Err"
    /\ pc' = "exit"
    /\ UNCHANGED <<processor, dry_run, overflow_checks, processor_info,
                   checksum, log, run, image0, prev>>

\* the tool is run again on the file the previous invocation left,
\* with the same processor and the same build
Rerun ==
    /\ pc = "exit"
    /\ run < MaxRuns
    /\ prev' = Some([dry_run |-> dry_run, outcome |-> outcome, log |-> log,
                     checksum |-> checksum, file |-> file, image0 |-> image0])
    /\ run' = run + 1
    /\ dry_run' \in BOOLEAN
    /\ pc' = "start"
    /\ processor_info' = None
    /\ checksum' = None
    /\ outcome' = "running"
    /\ log' = ""
    /\ image0' = file
    /\ UNCHANGED <<file, processor, overflow_checks>>

Next == Resolve \/ Open \/ Compute \/ Patch \/ Rerun

Spec == Init /\ [][Next]_vars

----------------------------------------------------------------------------
\* The lookup alone, over every identifier of at most MaxIdLen characters

IdChars == { "L", "P", "C", "2", "9", "3" }

GeneratedIds == UNION { [1..n -> IdChars] : n \in 0..MaxIdLen }

LookupIds ==
    GeneratedIds \cup Processors \cup
    { DefaultProcessor,
      <<"L","P","C","3","L","P","C","1">>,
      <<"L","P","C","1","L","P","C","3">>,
      <<"L","P","C","5","L","P","C","2","9">>,
      <<"X","L","P","C","4">>,
      <<"l","p","c","1","7","6","8">> }

InitLookup == Start({Example77}, LookupIds, {TRUE})

SpecLookup == InitLookup /\ [][Resolve]_vars

----------------------------------------------------------------------------
\* compute_checksum on two images that differ in the result slot only

\* f with the bytes of data put at offset, as far as f has bytes there
with_bytes_at(f, offset, data) ==
    [i \in 1..Len(f) |->
        IF i > offset /\ i <= offset + Len(data) THEN data[i - offset] ELSE f[i]]

\* the tool is run again, in dry-run mode, on an image that differs from the
\* previous one in the four bytes of the result slot at most
RerunOtherSlot ==
    /\ pc = "exit"
    /\ run < MaxRuns
    /\ is_some(processor_info)
    /\ \E content \in WordVals \cup {LeWord(0), LeWord(99)} :
        file' = with_bytes_at(file, Info.resulting_word_position * size_of_u32,
                              content)
    /\ prev' = Some([dry_run |-> dry_run, outcome |-> outcome, log |-> log,
                     checksum |-> checksum, file |-> file, image0 |-> image0])
    /\ run' = run + 1
    /\ pc' = "start"
    /\ processor_info' = None
    /\ checksum' = None
    /\ outcome' = "running"
    /\ log' = ""
    /\ image0' = file'
    /\ UNCHANGED <<processor, dry_run, overflow_checks>>

InitSlot == Start(Images, Processors, {TRUE})

NextSlot == Resolve \/ Open \/ Compute \/ RerunOtherSlot

SpecSlot == InitSlot /\ [][NextSlot]_vars

----------------------------------------------------------------------------
\* Vocabulary of the properties

Resolved == is_some(processor_info)
Supported == Resolved /\ is_some(Info.words_count)
WordCount == unwrap(Info.words_count)
Slot == Info.resulting_word_position
SlotOffset == Slot * 4

\* the file was opened in this invocation, and in the previous one
WasOpened == log # "error: cannot open file"
PrevWasOpened == unwrap(prev).log # "error: cannot open file"

\* compute_checksum was called and has returned
ComputeReturned == pc \in {"patch", "exit"} /\ Supported /\ WasOpened

\* the invocation ended Ok after writing the four bytes of the checksum
Patched ==
    pc = "exit" /\ Supported /\ WasOpened /\ ~dry_run /\ outcome = "Ok"

\* the previous invocation ended Ok after writing the checksum
PrevPatched ==
    /\ run > 1
    /\ PrevWasOpened
    /\ ~unwrap(prev).dry_run
    /\ unwrap(prev).outcome = "Ok"
    /\ is_some(unwrap(prev).checksum)

\* the 16-bit halves of word w (counted from 0) of image f
LoHalf(f, w) == f[4 * w + 1] + 256 * f[4 * w + 2]
HiHalf(f, w) == f[4 * w + 3] + 256 * f[4 * w + 4]

RECURSIVE SumLo(_, _)
SumLo(f, ws) ==
    IF ws = {} THEN 0
    ELSE LET w == CHOOSE x \in ws : TRUE IN LoHalf(f, w) + SumLo(f, ws \ {w})

RECURSIVE SumHi(_, _)
SumHi(f, ws) ==
    IF ws = {} THEN 0
    ELSE LET w == CHOOSE x \in ws : TRUE IN HiHalf(f, w) + SumHi(f, ws \ {w})

\* (the sum of the words ws of image f) mod 2^32, column by column
SumMod(f, ws) ==
    LET lo == SumLo(f, ws)
        hi == SumHi(f, ws) + (lo \div 65536)
    IN  U32(lo % 65536, hi % 65536)

\* the sum of the words ws of image f is 2^32 or more
SumExceeds(f, ws) == SumHi(f, ws) + (SumLo(f, ws) \div 65536) >= 65536

\* (2^32 - s) mod 2^32
NegMod(s) ==
    IF s.lo = 0 THEN U32(0, (65536 - s.hi) % 65536)
    ELSE U32(65536 - s.lo, 65535 - s.hi)

\* the words compute_checksum sums: 0..n-1 without the result slot
SummedWords == (0..(WordCount - 1)) \ {Slot}

\* the families whose identifier occurs in id, as indices of the table
Occurs(id, fam) ==
    \E off \in 0..(Len(id) - Len(fam)) :
        \A j \in 1..Len(fam) : id[off + j] = fam[j]
Matches(id) ==
    { i \in 1..Len(PROCESSOR_CHECKSUM) : Occurs(id, PROCESSOR_CHECKSUM[i].cpu_family) }
FirstOf(is) == CHOOSE i \in is : \A j \in is : i <= j

----------------------------------------------------------------------------
\* C1 as stated: after a successful patch the first word_count words of the
\* image sum to 0 modulo 2^32.
C1_SumOfCountedWordsIsZero ==
    Patched => SumMod(file, 0..(WordCount - 1)) = ZeroU32

\* C1 amended: after a successful patch the words of the image up to and
\* including the result slot, and at least the first word_count words, sum to
\* 0 modulo 2^32 (the first max(word_count, result_slot + 1) words).
C1_SumThroughSlotIsZero ==
    Patched => SumMod(file, 0..(Max(WordCount, Slot + 1) - 1)) = ZeroU32

C1_Witness ==
    /\ Patched
    /\ Slot = WordCount
    /\ file # image0
    /\ SumExceeds(image0, SummedWords)

\* C2: with word_count = Some(n) and n words readable, compute_checksum
\* returns Ok((2^32 - S mod 2^32) mod 2^32), S the sum of the words other than
\* the result slot, and an overflowing sum is never an abort; {8,5} on
\* [10,10,10,10,10,99,10,10] gives 0xFFFFFFBA, {7,7} on [1..7] gives 0xFFFFFFE4.
C2_ChecksumIsNegatedSum ==
    (ComputeReturned /\ Len(image0) >= 4 * WordCount) =>
        /\ outcome # "panic"
        /\ checksum = Some(NegMod(SumMod(image0, SummedWords)))
        /\ (image0 = Example85 /\ WordCount = 8 /\ Slot = 5)
               => checksum = Some(U32(65466, 65535))
        /\ (image0 = Example77 /\ WordCount = 7 /\ Slot = 7)
               => checksum = Some(U32(65508, 65535))

\* C3: two images that differ only in the four bytes of the result slot give
\* the same result of compute_checksum.
C3_SlotContentIgnored ==
    (/\ run > 1
     /\ pc = "exit" /\ Supported /\ WasOpened
     /\ PrevWasOpened) =>
        /\ checksum = unwrap(prev).checksum
        /\ outcome = unwrap(prev).outcome

C3_Witness ==
    /\ run > 1
    /\ pc = "exit" /\ Supported /\ WasOpened /\ PrevWasOpened
    /\ Slot < WordCount
    /\ file # unwrap(prev).file
    /\ is_some(checksum)

\* C4: the lookup gives the first family, in table order, whose identifier is
\* a substring of the processor identifier, and none when no family occurs
\* in it; the fallback "LPC1000" resolves, so main always has a scheme.
C4_FirstMatchOrFallback ==
    pc # "start" =>
        /\ is_some(processor_info)
        /\ outcome # "panic"
        /\ Matches(processor) # {} =>
              /\ unwrap(processor_info) = FirstOf(Matches(processor))
              /\ log # "warn: unknown processor"
        /\ Matches(processor) = {} =>
              /\ Matches(DefaultProcessor) # {}
              /\ unwrap(processor_info) = FirstOf(Matches(DefaultProcessor))
              /\ log = "warn: unknown processor"

C4_Witness ==
    /\ pc = "resolved"
    /\ Cardinality(Matches(processor)) > 1
    /\ unwrap(processor_info) = 2

\* C5: a successful non-dry-run run replaces exactly the 4 bytes at
\* result_slot*4 .. result_slot*4+3 by the little-endian checksum, leaves
\* every other byte as it was, and leaves the length of the image as it was.
C5_PatchReplacesFourBytes ==
    Patched =>
        /\ Len(file) = Len(image0)
        /\ file[SlotOffset + 1] + 256 * file[SlotOffset + 2] = unwrap(checksum).lo
        /\ file[SlotOffset + 3] + 256 * file[SlotOffset + 4] = unwrap(checksum).hi
        /\ \A i \in 1..Len(file) :
              (i <= SlotOffset \/ i > SlotOffset + 4) => file[i] = image0[i]

\* C6: a scheme with word_count = None ends the run in a failure outcome, and
\* no byte of the image is touched.
C6_UnsupportedFails ==
    (pc = "exit" /\ Resolved /\ is_none(Info.words_count)) =>
        /\ outcome \in {"Err", "panic"}
        /\ file = image0

\* C7: an image shorter than word_count*4 bytes makes the run fail with an
\* I/O error, without a checksum and without a write, dry-run or not.
C7_ShortImageFails ==
    (Supported /\ Len(image0) < 4 * WordCount) =>
        /\ file = image0
        /\ checksum = None
        /\ pc # "patch"
        /\ (pc = "exit" /\ WasOpened) => outcome = "Err"

C7_Witness ==
    /\ pc = "exit" /\ Supported /\ WasOpened
    /\ ~dry_run
    /\ Len(image0) < 4 * WordCount
    /\ Len(image0) > SlotOffset + 4
    /\ outcome = "Err"

\* C8: a dry run leaves every byte of the image as it was, and computes the
\* checksum a run without dry-run computes on the same image and processor.
C8_DryRunOnlyComputes ==
    /\ dry_run => file = image0
    /\ (/\ run > 1
        /\ dry_run # unwrap(prev).dry_run
        /\ image0 = unwrap(prev).image0
        /\ ComputeReturned
        /\ PrevWasOpened) =>
            checksum = unwrap(prev).checksum

C8_Witness ==
    /\ run > 1
    /\ unwrap(prev).dry_run /\ ~dry_run
    /\ PrevWasOpened /\ Patched
    /\ is_some(unwrap(prev).checksum)
    /\ file # image0

\* C9 as stated: every scheme of the table with word_count set, and so every
\* scheme main resolves with word_count set, has result_slot < word_count.
C9_SlotInsideRegion ==
    /\ \A i \in 1..Len(PROCESSOR_CHECKSUM) :
          is_some(PROCESSOR_CHECKSUM[i].words_count) =>
              PROCESSOR_CHECKSUM[i].resulting_word_position
                  < unwrap(PROCESSOR_CHECKSUM[i].words_count)
    /\ Supported => Slot < WordCount

\* C9 amended: every scheme of the table with word_count set, and so every
\* scheme main resolves with word_count set, has result_slot <= word_count
\* (the result slot lies inside the summed words or is the word after them).
C9_SlotInsideOrNext ==
    /\ \A i \in 1..Len(PROCESSOR_CHECKSUM) :
          is_some(PROCESSOR_CHECKSUM[i].words_count) =>
              PROCESSOR_CHECKSUM[i].resulting_word_position
                  <= unwrap(PROCESSOR_CHECKSUM[i].words_count)
    /\ Supported => Slot <= WordCount

C9_Witness ==
    /\ pc = "compute"
    /\ Supported
    /\ Slot = WordCount

\* C10: a second compute-then-patch run on the image a first such run patched
\* computes the same checksum and leaves the image as the first run left it.
C10_SecondRunChangesNothing ==
    (PrevPatched /\ ~dry_run /\ WasOpened /\ pc \in {"patch", "exit"}) =>
        /\ checksum = unwrap(prev).checksum
        /\ file = unwrap(prev).file

C10_Witness ==
    /\ PrevPatched
    /\ Patched
    /\ unwrap(prev).file # unwrap(prev).image0
    /\ Slot < WordCount

====
